---- MODULE Spec2Model ----
(***************************************************************************)
(* A model of lib/webResource.ts: the WebResource request descriptor, its  *)
(* constructor, validateRequestProperties(), prepare(options) and clone(). *)
(*                                                                         *)
(* JavaScript strings that the code inspects character by character (urls, *)
(* templates, parameter values, methods) are sequences of one-character    *)
(* strings.  JavaScript values of varying type are records tagged by t,    *)
(* the result of typeof (with "undefined" and "null" kept apart).          *)
(***************************************************************************)
EXTENDS Integers, Sequences, FiniteSets, TLC

(***************************************************************************)
(* JavaScript values                                                       *)
(***************************************************************************)
Undef == [t |-> "undefined"]
Null == [t |-> "null"]
Str(s) == [t |-> "string", v |-> s]
Num(k) == [t |-> "number", v |-> k]
\* a plain object holding the mapping m
Obj(m) == [t |-> "object", m |-> m]
\* a ParameterValue wrapper { value, skipUrlEncoding }
Wrapper(val, skip) == [t |-> "wrapper", value |-> val, skipUrlEncoding |-> skip]

\* typeof x
TypeOf(x) == IF x.t \in {"null", "wrapper"} THEN "object" ELSE x.t

\* ToBoolean(x): undefined, null, "" and 0 are falsy
Truthy(x) ==
  CASE x.t = "undefined" -> FALSE
    [] x.t = "null" -> FALSE
    [] x.t = "string" -> x.v # <<>>
    [] x.t = "number" -> x.v # 0
    [] OTHER -> TRUE

\* x == undefined (loose equality: true of undefined and null)
LooseUndefined(x) == x.t \in {"undefined", "null"}

(***************************************************************************)
(* Strings                                                                 *)
(***************************************************************************)
Letters ==
  {"a", "b", "c", "e", "g", "h", "k", "m", "n", "o", "p", "q", "r", "s", "t", "u", "v", "x", "y", "z",
   "A", "B", "C", "D", "E", "F", "G", "H", "I", "K", "L", "M", "N", "O", "P", "Q", "R", "S",
   "T", "U", "V", "X", "Y", "Z"}
Digits == {"0", "1", "2", "3", "4", "5", "6", "7", "8", "9"}
\* the characters \w matches
WordChars == Letters \cup Digits \cup {"_"}
\* the characters \s matches
SpaceChars == {" "}

startsWith(s, ch) == Len(s) > 0 /\ s[1] = ch
endsWith(s, ch) == Len(s) > 0 /\ s[Len(s)] = ch
\* s.slice(1)
DropFirst(s) == SubSeq(s, 2, Len(s))
\* s.slice(1, -1)
StripEnds(s) == SubSeq(s, 2, Len(s) - 1)

\* whether sub occurs in s at index i (1-based)
OccursAt(s, sub, i) ==
  /\ i >= 1
  /\ i + Len(sub) - 1 <= Len(s)
  /\ SubSeq(s, i, i + Len(sub) - 1) = sub

\* the first index >= i at which sub occurs in s; 0 when there is none
RECURSIVE IndexFrom(_, _, _)
IndexFrom(s, sub, i) ==
  IF i + Len(sub) - 1 > Len(s) THEN 0
  ELSE IF OccursAt(s, sub, i) THEN i
  ELSE IndexFrom(s, sub, i + 1)

\* s.indexOf(sub), 1-based; 0 when sub does not occur (JavaScript's -1)
indexOf(s, sub) == IndexFrom(s, sub, 1)

\* the characters encodeURIComponent leaves alone
Unreserved == Letters \cup Digits \cup {"-", "_", ".", "!", "~", "*", "(", ")"}

\* the percent-encoding of one reserved ASCII character
PercentCode(ch) ==
  CASE ch = " " -> <<"%", "2", "0">>
    [] ch = "$" -> <<"%", "2", "4">>
    [] ch = "%" -> <<"%", "2", "5">>
    [] ch = "&" -> <<"%", "2", "6">>
    [] ch = "/" -> <<"%", "2", "F">>
    [] ch = ":" -> <<"%", "3", "A">>
    [] ch = "=" -> <<"%", "3", "D">>
    [] ch = "?" -> <<"%", "3", "F">>
    [] ch = "{" -> <<"%", "7", "B">>
    [] ch = "}" -> <<"%", "7", "D">>

RECURSIVE encodeURIComponent(_)
encodeURIComponent(s) ==
  IF s = <<>> THEN <<>>
  ELSE (IF Head(s) \in Unreserved THEN <<Head(s)>> ELSE PercentCode(Head(s)))
       \o encodeURIComponent(Tail(s))

\* one character of String.prototype.toUpperCase
UpperChar(ch) ==
  CASE ch = "a" -> "A" [] ch = "b" -> "B" [] ch = "c" -> "C" [] ch = "e" -> "E"
    [] ch = "g" -> "G" [] ch = "h" -> "H" [] ch = "k" -> "K" [] ch = "m" -> "M"
    [] ch = "n" -> "N" [] ch = "o" -> "O" [] ch = "p" -> "P" [] ch = "q" -> "Q"
    [] ch = "r" -> "R" [] ch = "s" -> "S" [] ch = "t" -> "T" [] ch = "u" -> "U"
    [] ch = "v" -> "V" [] ch = "x" -> "X" [] ch = "y" -> "Y" [] ch = "z" -> "Z"
    [] OTHER -> ch

RECURSIVE toUpperCase(_)
toUpperCase(s) == IF s = <<>> THEN <<>> ELSE <<UpperChar(Head(s))>> \o toUpperCase(Tail(s))

(***************************************************************************)
(* The placeholder pattern /({\w*\s*\w*})/ig and String.prototype.replace  *)
(***************************************************************************)
\* the first index >= i of s whose character is not in class (Len(s)+1 at the end)
RECURSIVE SkipClass(_, _, _)
SkipClass(s, i, class) ==
  IF i <= Len(s) /\ s[i] \in class THEN SkipClass(s, i + 1, class) ELSE i

\* the index of the "}" closing a placeholder that starts at i, or 0.  The
\* three starred classes and "}" are disjoint, so the greedy match is the only one.
PlaceholderEnd(s, i) ==
  IF i <= Len(s) /\ s[i] = "{"
    THEN LET j == SkipClass(s, SkipClass(s, SkipClass(s, i + 1, WordChars), SpaceChars), WordChars)
         IN IF j <= Len(s) /\ s[j] = "}" THEN j ELSE 0
    ELSE 0

\* url.match(/({\w*\s*\w*})/ig): the placeholders of s from index i on, left to right
RECURSIVE MatchPlaceholders(_, _)
MatchPlaceholders(s, i) ==
  IF i > Len(s) THEN <<>>
  ELSE LET e == PlaceholderEnd(s, i)
       IN IF e = 0 THEN MatchPlaceholders(s, i + 1)
          ELSE <<SubSeq(s, i, e)>> \o MatchPlaceholders(s, e + 1)

\* the expansion of a replacement string r: dollar-dollar gives one dollar sign
\* and dollar-ampersand the matched text; any other dollar sign stands for itself
\* (the two patterns that insert the text before and after the match begin with
\* a backtick and an apostrophe, characters no modelled string holds)
RECURSIVE ExpandReplacement(_, _)
ExpandReplacement(r, matched) ==
  IF r = <<>> THEN <<>>
  ELSE IF Head(r) = "$" /\ Len(r) >= 2 /\ r[2] \in {"$", "&"}
    THEN (IF r[2] = "$" THEN <<"$">> ELSE matched)
         \o ExpandReplacement(SubSeq(r, 3, Len(r)), matched)
    ELSE <<Head(r)>> \o ExpandReplacement(Tail(r), matched)

\* s.replace(item, r) with a string pattern: the first occurrence only
replace(s, item, r) ==
  LET i == indexOf(s, item)
  IN IF i = 0 THEN s
     ELSE SubSeq(s, 1, i - 1) \o ExpandReplacement(r, item)
          \o SubSeq(s, i + Len(item), Len(s))

(***************************************************************************)
(* Collaborators: HttpHeaders, Serializer, JSON.stringify, generateUuid    *)
(***************************************************************************)
\* a header store holds, per lower-cased header name, the value set or NoHeader
NoHeader == "<none>"
HeaderKeys ==
  {"content-type", "transfer-encoding", "accept-language", "x-ms-client-request-id"}
EmptyHeaders == [k \in HeaderKeys |-> NoHeader]

\* the key a header name is stored under: the name in lower case
getHeaderKey(name) ==
  CASE name = "Content-Type" -> "content-type"
    [] name = "CONTENT-TYPE" -> "content-type"
    [] name = "Transfer-Encoding" -> "transfer-encoding"
    [] name = "Accept-Language" -> "accept-language"
    [] OTHER -> name

\* HttpHeaders.get(name): the value, or NoHeader (undefined) when none is set
HeaderGet(h, name) == h[getHeaderKey(name)]
\* HttpHeaders.set(name, value)
HeaderSet(h, name, value) == [h EXCEPT ![getHeaderKey(name)] = value]
\* !headers.get(name): no value, or the empty string
HeaderFalsy(h, name) == HeaderGet(h, name) \in {NoHeader, ""}
\* HttpHeaders.clone(): a new store holding the same entries
HeadersClone(h) == [k \in HeaderKeys |-> h[k]]

\* request bodies are opaque values; the serializer and JSON.stringify build
\* new values from them
Body(b) == [t |-> "value", v |-> b]
\* the bodies the serializer refuses (it throws) under a mapper
SerializerRejects(mapper, body) == body = Body("B2")
\* new Serializer(mappers).serialize(mapper, body, "requestBody")
Serialize(mapper, body) == [t |-> "serialized", mapper |-> mapper, of |-> body]
\* JSON.stringify(body)
JSONstringify(body) == [t |-> "json", of |-> body]

\* what generateUuid() returns: a fresh identifier, equal to no value a caller set
GeneratedId == "<generated uuid>"

(***************************************************************************)
(* WebResource: constructor and validateRequestProperties                  *)
(***************************************************************************)
\* the descriptor built by new WebResource(url, method, body, query, headers,
\* rawResponse, abortSignal, onUploadProgress, onDownloadProgress); headers is the
\* reference of its header store, rawResponse carries its default already
WebResource(url, method, body, query, headers, rawResponse, abortSignal, up, down) ==
  [ rawResponse |-> rawResponse,
    url |-> IF Truthy(url) THEN url.v ELSE <<>>,
    method |-> IF Truthy(method) THEN method.v ELSE <<"G", "E", "T">>,
    headers |-> headers,
    body |-> body,
    query |-> query,
    formData |-> Undef,
    operationSpec |-> Undef,
    abortSignal |-> abortSignal,
    onUploadProgress |-> up,
    onDownloadProgress |-> down ]

\* validateRequestProperties() looking at the url before the method
validateRequestProperties_UrlFirst(w) ==
  IF w.url = <<>> THEN "MissingUrl"
  ELSE IF w.method = <<>> THEN "MissingMethod"
  ELSE "none"

\* validateRequestProperties(): the error thrown, or "none"
validateRequestProperties(w) ==
  IF w.method = <<>> THEN "MissingMethod"
  ELSE IF w.url = <<>> THEN "MissingUrl"
  ELSE "none"

(***************************************************************************)
(* WebResource.prepare(options), stage by stage.  A stage takes the run so *)
(* far, r = [w: the descriptor, h: its header store, err: the error thrown *)
(* or "none"], and the options o.  A throw keeps what was assigned before. *)
(***************************************************************************)
Fail(r, e) == [r EXCEPT !.err = e]

validMethods ==
  { <<"G", "E", "T">>, <<"P", "U", "T">>, <<"H", "E", "A", "D">>,
    <<"D", "E", "L", "E", "T", "E">>, <<"O", "P", "T", "I", "O", "N", "S">>,
    <<"P", "O", "S", "T">>, <<"P", "A", "T", "C", "H">>, <<"T", "R", "A", "C", "E">> }

DefaultBaseUrl ==
  <<"h", "t", "t", "p", "s", ":", "/", "/", "m", "a", "n", "a", "g", "e", "m", "e", "n", "t",
    ".", "a", "z", "u", "r", "e", ".", "c", "o", "m">>

\* the checks that open prepare: the error thrown, or "none"
CheckOptions(o) ==
  IF ~Truthy(o) THEN "OptionsRequired"
  ELSE IF LooseUndefined(o.method) \/ o.method.t # "string" THEN "MethodNotString"
  ELSE IF Truthy(o.url) /\ Truthy(o.pathTemplate) THEN "ConflictingUrlSpec"
  ELSE IF /\ (LooseUndefined(o.pathTemplate) \/ o.pathTemplate.t # "string")
          /\ (LooseUndefined(o.url) \/ o.url.t # "string")
    THEN "MissingUrlSpec"
  ELSE "none"

\* set the url if it is provided
SetUrl(r, o) ==
  IF ~Truthy(o.url) THEN r
  ELSE IF o.url.t # "string" THEN Fail(r, "UrlNotString")
  ELSE [r EXCEPT !.w.url = o.url.v]

\* set the method
SetMethod(r, o) ==
  IF Truthy(o.method) /\ toUpperCase(o.method.v) \notin validMethods
    THEN Fail(r, "InvalidMethod")
    ELSE [r EXCEPT !.w.method = toUpperCase(o.method.v)]

\* pathParameters[name]
PathParam(pp, name) == IF name \in DOMAIN pp.m THEN pp.m[name] ELSE Undef

\* segments.forEach(...): the url after the substitutions for segs[i..], or the
\* error thrown on the way
RECURSIVE SubstituteSegments(_, _, _, _)
SubstituteSegments(url, segs, i, pp) ==
  IF i > Len(segs) THEN [url |-> url, err |-> "none"]
  ELSE
    LET item == segs[i]
        pathParam == PathParam(pp, StripEnds(item))
    IN IF LooseUndefined(pathParam) \/ ~(TypeOf(pathParam) \in {"string", "object"})
         THEN [url |-> url, err |-> "InvalidPathParameter"]
       ELSE IF pathParam.t = "string"
         THEN SubstituteSegments(replace(url, item, encodeURIComponent(pathParam.v)),
                                 segs, i + 1, pp)
       ELSE IF ~Truthy(pathParam.value)
         THEN [url |-> url, err |-> "MissingParameterValue"]
       ELSE IF pathParam.skipUrlEncoding
         THEN SubstituteSegments(replace(url, item, pathParam.value.v), segs, i + 1, pp)
       ELSE SubstituteSegments(replace(url, item, encodeURIComponent(pathParam.value.v)),
                               segs, i + 1, pp)

\* baseUrl + (one "/" unless baseUrl ends with it) + pathTemplate less one leading "/"
ComposeTemplateUrl(baseUrl, pathTemplate) ==
  baseUrl \o (IF endsWith(baseUrl, "/") THEN <<>> ELSE <<"/">>)
          \o (IF startsWith(pathTemplate, "/") THEN DropFirst(pathTemplate) ELSE pathTemplate)

\* construct the url if path template is provided
ResolveTemplate(r, o) ==
  IF ~Truthy(o.pathTemplate) THEN r
  ELSE IF o.pathTemplate.t # "string" THEN Fail(r, "PathTemplateNotString")
  ELSE
    LET baseUrl == IF Truthy(o.baseUrl) THEN o.baseUrl.v ELSE DefaultBaseUrl
        url == ComposeTemplateUrl(baseUrl, o.pathTemplate.v)
        segments == MatchPlaceholders(url, 1)
    IN IF segments # <<>> /\ ~Truthy(o.pathParameters)
         THEN Fail(r, "PathParametersRequired")
         ELSE LET res == SubstituteSegments(url, segments, 1, o.pathParameters)
              IN IF res.err # "none" THEN Fail(r, res.err)
                 ELSE [r EXCEPT !.w.url = res.url]

\* queryParams.join("&")
RECURSIVE Join(_, _)
Join(parts, sep) ==
  IF parts = <<>> THEN <<>>
  ELSE IF Len(parts) = 1 THEN parts[1]
  ELSE parts[1] \o sep \o Join(Tail(parts), sep)

\* the text pushed on queryParams for a string or wrapper parameter
QueryPair(name, queryParam) ==
  name \o <<"=">> \o
    (IF queryParam.t = "string" THEN encodeURIComponent(queryParam.v)
     ELSE IF queryParam.skipUrlEncoding THEN queryParam.value.v
     ELSE encodeURIComponent(queryParam.value.v))

\* the value stored in this.query, were a string parameter stored as given
QueryValue_Unencoded(queryParam) ==
  IF queryParam.t = "string" THEN queryParam.v
  ELSE IF queryParam.skipUrlEncoding THEN queryParam.value.v
  ELSE encodeURIComponent(queryParam.value.v)

\* the value stored in this.query for a string or wrapper parameter
QueryValue(queryParam) ==
  IF queryParam.t = "string" THEN encodeURIComponent(queryParam.v)
  ELSE IF queryParam.skipUrlEncoding THEN queryParam.value.v
  ELSE encodeURIComponent(queryParam.value.v)

\* the for-in loop over queryParameters from entry i on: the pairs pushed, the
\* entries of this.query, and the error thrown on the way
RECURSIVE QueryLoop(_, _, _, _)
QueryLoop(entries, i, queryParams, query) ==
  IF i > Len(entries) THEN [queryParams |-> queryParams, query |-> query, err |-> "none"]
  ELSE
    LET queryParamName == entries[i][1]
        queryParam == entries[i][2]
    IN IF ~Truthy(queryParam) THEN QueryLoop(entries, i + 1, queryParams, query)
       ELSE IF queryParam.t = "string"
         THEN QueryLoop(entries, i + 1,
                        Append(queryParams, QueryPair(queryParamName, queryParam)),
                        Append(query, <<queryParamName, QueryValue(queryParam)>>))
       ELSE IF TypeOf(queryParam) = "object"
         THEN IF ~Truthy(queryParam.value)
                THEN [queryParams |-> queryParams, query |-> query,
                      err |-> "MissingParameterValue"]
                ELSE QueryLoop(entries, i + 1,
                               Append(queryParams, QueryPair(queryParamName, queryParam)),
                               Append(query, <<queryParamName, QueryValue(queryParam)>>))
       ELSE QueryLoop(entries, i + 1, queryParams, query)

\* append query parameters to the url if they are provided
ComposeQuery(r, o) ==
  IF ~Truthy(o.queryParameters) THEN r
  ELSE IF TypeOf(o.queryParameters) # "object" THEN Fail(r, "InvalidQueryParameters")
  ELSE
    LET marked == IF r.w.url # <<>> /\ indexOf(r.w.url, <<"?">>) = 0
                    THEN r.w.url \o <<"?">> ELSE r.w.url
        res == QueryLoop(o.queryParameters.m, 1, <<>>, <<>>)
    IN IF res.err # "none"
         THEN [r EXCEPT !.w.url = marked, !.w.query = Obj(res.query), !.err = res.err]
         ELSE [r EXCEPT !.w.url = marked \o Join(res.queryParams, <<"&">>),
                        !.w.query = Obj(res.query)]

\* this.headers.set(name, value) for the entries of options.headers from i on
RECURSIVE SetAll(_, _, _)
SetAll(h, entries, i) ==
  IF i > Len(entries) THEN h
  ELSE SetAll(HeaderSet(h, entries[i][1], entries[i][2]), entries, i + 1)

\* add headers to the request if they are provided, then the defaults
MergeHeaders(r, o) ==
  LET h1 == IF Truthy(o.headers) THEN SetAll(r.h, o.headers.m, 1) ELSE r.h
      h2 == IF HeaderFalsy(h1, "accept-language")
              THEN HeaderSet(h1, "accept-language", "en-US") ELSE h1
      h3 == IF HeaderFalsy(h2, "x-ms-client-request-id") /\ ~o.disableClientRequestId
              THEN HeaderSet(h2, "x-ms-client-request-id", GeneratedId) ELSE h2
      h4 == IF HeaderFalsy(h3, "Content-Type")
              THEN HeaderSet(h3, "Content-Type", "application/json; charset=utf-8") ELSE h3
  IN [r EXCEPT !.h = h4]

\* the stream headers, were Transfer-Encoding set whatever the store holds
StreamHeaders_ForcesChunked(h) ==
  HeaderSet(HeaderSet(h, "Transfer-Encoding", "chunked"),
            "Content-Type", "application/octet-stream")

\* the request headers specific to sending a stream
StreamHeaders(h) ==
  LET h1 == IF HeaderFalsy(h, "Transfer-Encoding")
              THEN HeaderSet(h, "Transfer-Encoding", "chunked") ELSE h
  IN IF HeaderGet(h1, "Content-Type") # "application/octet-stream"
       THEN HeaderSet(h1, "Content-Type", "application/octet-stream") ELSE h1

\* the body stage, were a stream body encoded like any other body
EncodeBody_EncodesStream(r, o) ==
  LET r0 == [r EXCEPT !.w.body = o.body]
  IN IF LooseUndefined(o.body) THEN r0
     ELSE IF Truthy(o.serializationMapper) /\ SerializerRejects(o.serializationMapper, o.body)
       THEN Fail(r0, "SerializationError")
     ELSE
       LET r1 == IF o.bodyIsStream THEN [r0 EXCEPT !.h = StreamHeaders_ForcesChunked(r0.h)] ELSE r0
           r2 == IF Truthy(o.serializationMapper)
                   THEN [r1 EXCEPT !.w.body = Serialize(o.serializationMapper, o.body)]
                   ELSE r1
       IN IF ~o.disableJsonStringifyOnBody
            THEN [r2 EXCEPT !.w.body = JSONstringify(o.body)]
            ELSE r2

\* set the request body
EncodeBody(r, o) ==
  LET r0 == [r EXCEPT !.w.body = o.body]
  IN IF LooseUndefined(o.body) THEN r0
     ELSE IF o.bodyIsStream THEN [r0 EXCEPT !.h = StreamHeaders(r0.h)]
     ELSE IF Truthy(o.serializationMapper) /\ SerializerRejects(o.serializationMapper, o.body)
       THEN Fail(r0, "SerializationError")
     ELSE
       LET r1 == IF Truthy(o.serializationMapper)
                   THEN [r0 EXCEPT !.w.body = Serialize(o.serializationMapper, o.body)]
                   ELSE r0
       IN IF ~o.disableJsonStringifyOnBody
            THEN [r1 EXCEPT !.w.body = JSONstringify(o.body)]
            ELSE r1

\* the abort signal and the progress callbacks
SetCallbacks(r, o) ==
  [r EXCEPT !.w.abortSignal = o.abortSignal,
            !.w.onDownloadProgress = o.onDownloadProgress,
            !.w.onUploadProgress = o.onUploadProgress]

\* prepare(options) on the descriptor w whose header store holds h: the
\* descriptor and the store as the call leaves them, and the error thrown
prepare(w, h, o) ==
  LET r0 == [w |-> w, h |-> h, err |-> CheckOptions(o)]
      r1 == IF r0.err = "none" THEN SetUrl(r0, o) ELSE r0
      r2 == IF r1.err = "none" THEN SetMethod(r1, o) ELSE r1
      r3 == IF r2.err = "none" THEN ResolveTemplate(r2, o) ELSE r2
      r4 == IF r3.err = "none" THEN ComposeQuery(r3, o) ELSE r3
      r5 == IF r4.err = "none" THEN MergeHeaders(r4, o) ELSE r4
      r6 == IF r5.err = "none" THEN EncodeBody(r5, o) ELSE r5
  IN IF r6.err = "none" THEN SetCallbacks(r6, o) ELSE r6

(***************************************************************************)
(* WebResource.clone()                                                     *)
(***************************************************************************)
\* the descriptor clone() returns for w, its headers being the store newHeaders
\* that this.headers.clone() made
clone(w, newHeaders) ==
  [ WebResource(Str(w.url), Str(w.method), w.body, w.query, newHeaders, w.rawResponse,
                w.abortSignal, w.onUploadProgress, w.onDownloadProgress)
      EXCEPT !.formData = w.formData, !.operationSpec = w.operationSpec ]

(***************************************************************************)
(* The calls made on the descriptors: bounded sets of arguments            *)
(***************************************************************************)
\* the number of calls made in one behaviour
MaxOps == 2

S_u == <<"u">>
S_uq == <<"u", "?", "k", "=", "v">>
S_b == <<"b">>
S_bs == <<"b", "/">>
S_v == <<"v">>
S_x == <<"x">>
S_y == <<"y">>
S_q == <<"q">>
S_r == <<"r">>
S_ab == <<"a", " ", "b">>
S_amp == <<"a", "&", "b">>

\* an options object that sets nothing but the method
NoOptions ==
  [ t |-> "object", method |-> Str(<<"G", "E", "T">>), url |-> Undef,
    pathTemplate |-> Undef, baseUrl |-> Undef, pathParameters |-> Undef,
    queryParameters |-> Undef, headers |-> Undef, disableClientRequestId |-> FALSE,
    body |-> Undef, serializationMapper |-> Undef, disableJsonStringifyOnBody |-> FALSE,
    bodyIsStream |-> FALSE, abortSignal |-> Undef, onUploadProgress |-> Undef,
    onDownloadProgress |-> Undef ]

Methods ==
  { Undef, Num(1), Str(<<>>), Str(<<"g", "e", "t">>), Str(<<"P", "a", "t", "c", "h">>),
    Str(<<"T", "R", "A", "C", "E">>), Str(<<"F", "O", "O">>), Str(<<"G", "E">>) }

Templates ==
  { <<"/", "a", "/", "{", "x", "}">>,
    <<"{", "x", "}", "/", "{", "x", "}">>,
    <<"{", "x", "}", "{", "y", "}">>,
    <<"/", "{", "x", " ", "y", "}">> }

PathParameterSets ==
  { Undef,
    Obj(S_x :> Str(S_ab)),
    Obj(S_x :> Str(S_v) @@ S_y :> Wrapper(Str(S_ab), FALSE)),
    Obj(S_x :> Wrapper(Str(S_ab), TRUE) @@ S_y :> Str(S_v)),
    Obj(S_x :> Wrapper(Str(<<"$", "$">>), TRUE) @@ S_y :> Str(S_v)),
    Obj(S_x :> Wrapper(Str(<<"{", "y", "}">>), TRUE) @@ S_y :> Str(S_v)),
    Obj(S_x :> Num(5)),
    Obj(S_x :> Wrapper(Undef, TRUE)),
    Obj(<<"x", " ", "y">> :> Str(S_v)) }

QueryParameterSets ==
  { Obj(<<>>),
    Obj(<< <<S_q, Str(S_amp)>> >>),
    Obj(<< <<S_q, Wrapper(Str(S_amp), TRUE)>>, <<S_r, Str(S_v)>> >>),
    Obj(<< <<S_q, Wrapper(Str(S_ab), FALSE)>> >>),
    Obj(<< <<S_q, Str(<<>>)>>, <<S_r, Str(S_v)>> >>),
    Obj(<< <<S_q, Num(5)>>, <<S_r, Str(S_v)>> >>),
    Obj(<< <<S_q, Str(S_v)>>, <<S_r, Wrapper(Undef, FALSE)>> >>),
    Str(S_q) }

HeaderSets ==
  { Undef,
    Obj(<< <<"Content-Type", "text/plain">>, <<"CONTENT-TYPE", "text/xml">> >>),
    Obj(<< <<"content-type", "">> >>),
    Obj(<< <<"Transfer-Encoding", "gzip">> >>),
    Obj(<< <<"Accept-Language", "fr">>, <<"x-ms-client-request-id", "caller-id">> >>) }

\* calls that vary the method and which of url and pathTemplate are given
UrlSpecCalls ==
  { [NoOptions EXCEPT !.method = m, !.url = u, !.pathTemplate = p] :
      m \in {Str(<<"g", "e", "t">>), Str(<<"F", "O", "O">>)},
      u \in {Undef, Str(<<>>), Str(S_u)},
      p \in {Undef, Str(<<>>), Str(<<"a">>)} }
  \cup
  { [NoOptions EXCEPT !.url = Num(5), !.pathTemplate = p] : p \in {Undef, Str(<<>>)} }
  \cup
  { [NoOptions EXCEPT !.url = u, !.pathTemplate = Num(5)] : u \in {Undef, Str(<<>>)} }

MethodCalls ==
  { [NoOptions EXCEPT !.method = m, !.url = u] : m \in Methods, u \in {Str(S_u), Str(<<>>)} }

\* calls that resolve a path template
TemplateCalls ==
  { [NoOptions EXCEPT !.pathTemplate = Str(p), !.baseUrl = Str(S_b), !.pathParameters = pp] :
      p \in Templates, pp \in PathParameterSets }
  \cup
  { [NoOptions EXCEPT !.pathTemplate = Str(p), !.baseUrl = b,
                      !.pathParameters = Obj(S_x :> Str(S_v))] :
      p \in {<<"a">>, <<"/", "a">>, <<"/", "/", "{", "x", "}">>},
      b \in {Undef, Str(<<>>), Str(S_bs)} }

\* calls that compose a query string
QueryCalls ==
  { [NoOptions EXCEPT !.url = u, !.queryParameters = qp] :
      u \in {Str(S_u), Str(S_uq), Str(<<>>)}, qp \in QueryParameterSets }
  \cup
  { [NoOptions EXCEPT !.pathTemplate = Str(<<"/", "{", "x", "}">>), !.baseUrl = Str(S_b),
                      !.pathParameters = Obj(S_x :> Str(S_ab)),
                      !.queryParameters = qp] : qp \in QueryParameterSets }

\* calls that vary the headers given, without a body, with a body and with a stream
HeaderCalls ==
  { [NoOptions EXCEPT !.url = Str(S_u), !.headers = hs, !.body = b, !.bodyIsStream = st] :
      hs \in HeaderSets, b \in {Undef, Body("B1")}, st \in BOOLEAN }

\* calls that vary the body and how it is to be encoded
BodyCalls ==
  { [NoOptions EXCEPT !.url = Str(S_u), !.body = b, !.bodyIsStream = st,
                      !.serializationMapper = sm, !.disableJsonStringifyOnBody = dj] :
      b \in {Null, Body("B1"), Body("B2")}, st \in BOOLEAN,
      sm \in {Undef, Obj("M1")}, dj \in BOOLEAN }

\* calls that disable the request id and pass the abort signal and the callbacks
CallbackCalls ==
  { [NoOptions EXCEPT !.url = Str(S_u), !.headers = hs, !.disableClientRequestId = TRUE,
                      !.abortSignal = Obj("signal"), !.onUploadProgress = Obj("up"),
                      !.onDownloadProgress = Obj("down")] :
      hs \in {Undef, Obj(<< <<"x-ms-client-request-id", "caller-id">> >>)} }

PrepareCalls ==
  {Undef} \cup UrlSpecCalls \cup MethodCalls \cup TemplateCalls \cup QueryCalls
          \cup HeaderCalls \cup BodyCalls \cup CallbackCalls

(***************************************************************************)
(* State and actions                                                       *)
(***************************************************************************)
VARIABLES
  d,       \* the descriptor
  c,       \* its clone: <<>> until clone() is called, then <<the clone>>
  stores,  \* the header stores, by reference
  last,    \* the call that just returned: its name, arguments and error, and the
           \* state it found; Idle once the caller has taken the outcome
  ops      \* the number of calls made

vars == <<d, c, stores, last, ops>>

Call(op, target, o, err) ==
  [op |-> op, target |-> target, opts |-> o, err |-> err, pre |-> d, preStores |-> stores]

Idle ==
  [op |-> "idle", target |-> "d", opts |-> Undef, err |-> "none", pre |-> Undef,
   preStores |-> <<>>]

\* new HttpHeaders(rawHeaders)
NewHeaders(rawHeaders) ==
  IF Truthy(rawHeaders) THEN SetAll(EmptyHeaders, rawHeaders.m, 1) ELSE EmptyHeaders

\* new WebResource(), or new WebResource(url, undefined, undefined, undefined, headers)
Init ==
  \E args \in { <<Undef, Undef>>,
                <<Str(S_u), Obj(<< <<"Content-Type", "text/plain">> >>)>> } :
    /\ d = WebResource(args[1], Undef, Undef, Undef, 1, FALSE, Undef, Undef, Undef)
    /\ stores = <<NewHeaders(args[2])>>
    /\ c = <<>>
    /\ last = Idle
    /\ ops = 0

\* d.prepare(o)
Prepare ==
  /\ last = Idle
  /\ ops < MaxOps
  /\ \E o \in PrepareCalls :
       \E res \in {prepare(d, stores[d.headers], o)} :
          /\ d' = res.w
          /\ stores' = [stores EXCEPT ![d.headers] = res.h]
          /\ last' = Call("prepare", "d", o, res.err)
  /\ ops' = ops + 1
  /\ UNCHANGED c

\* d.validateRequestProperties()
Validate ==
  /\ last = Idle
  /\ ops < MaxOps
  /\ last' = Call("validate", "d", Undef, validateRequestProperties(d))
  /\ ops' = ops + 1
  /\ UNCHANGED <<d, c, stores>>

\* c = d.clone()
Clone ==
  /\ last = Idle
  /\ ops < MaxOps
  /\ c = <<>>
  /\ stores' = Append(stores, HeadersClone(stores[d.headers]))
  /\ c' = <<clone(d, Len(stores) + 1)>>
  /\ last' = Call("clone", "d", Undef, "none")
  /\ ops' = ops + 1
  /\ UNCHANGED d

\* the caller sets a header of the descriptor or of its clone
SetHeader ==
  /\ last = Idle
  /\ ops < MaxOps
  /\ c # <<>>
  /\ \E target \in {"d", "c"} :
       LET ref == IF target = "d" THEN d.headers ELSE c[1].headers
       IN /\ stores' = [stores EXCEPT ![ref] = HeaderSet(stores[ref], "content-type", "text/html")]
          /\ last' = Call("set", target, Undef, "none")
  /\ ops' = ops + 1
  /\ UNCHANGED <<d, c>>

\* the caller takes the outcome of the call and goes on
Return ==
  /\ last # Idle
  /\ last' = Idle
  /\ UNCHANGED <<d, c, stores, ops>>

Next == Prepare \/ Validate \/ Clone \/ SetHeader \/ Return

Spec == Init /\ [][Next]_vars

(***************************************************************************)
(* What the claims are stated over                                         *)
(***************************************************************************)
\* a prepare call has just returned; with options, with a string method, without error
Prepared == last.op = "prepare" /\ last.opts.t = "object"
PreparedWithStringMethod == Prepared /\ last.opts.method.t = "string"
Succeeded == Prepared /\ last.err = "none"

\* the header store of the descriptor now, and when the last call began
HeadersNow == stores[d.headers]
HeadersBefore == last.preStores[last.pre.headers]

\* an option counts as supplied when it is neither absent nor the empty string
Supplied(x) == ~(x.t \in {"undefined", "null"}) /\ x # Str(<<>>)

\* the value a path or query parameter resolves to: a string percent-encoded, a
\* wrapper verbatim when skipUrlEncoding is set and percent-encoded otherwise
Resolved(p) ==
  IF p.t = "string" THEN encodeURIComponent(p.v)
  ELSE IF p.t = "number" THEN <<"5">>
  ELSE IF p.skipUrlEncoding THEN p.value.v
  ELSE encodeURIComponent(p.value.v)

\* s with every placeholder, at every occurrence, replaced by the resolved value
\* of its parameter, all at once (nothing substituted is looked at again)
RECURSIVE SubstituteAll(_, _, _)
SubstituteAll(s, i, pp) ==
  IF i > Len(s) THEN <<>>
  ELSE LET e == PlaceholderEnd(s, i)
       IN IF e = 0 THEN <<s[i]>> \o SubstituteAll(s, i + 1, pp)
          ELSE Resolved(PathParam(pp, StripEnds(SubSeq(s, i, e))))
               \o SubstituteAll(s, e + 1, pp)

\* the url a call with a path template is to resolve to
ExpectedTemplateUrl(o) ==
  LET base == IF Truthy(o.baseUrl) THEN o.baseUrl.v ELSE DefaultBaseUrl
      joined == (IF endsWith(base, "/") THEN base ELSE base \o <<"/">>)
                \o (IF startsWith(o.pathTemplate.v, "/")
                      THEN DropFirst(o.pathTemplate.v) ELSE o.pathTemplate.v)
  IN SubstituteAll(joined, 1, o.pathParameters)

\* C1: a prepare call with a string method fails with the conflicting-URL-spec
\* error whenever url and pathTemplate are both supplied, and with the
\* missing-URL-spec error whenever neither is (each absent or empty); a
\* successful call had exactly one of the two supplied.
C1_ExactlyOneUrlSpec ==
  PreparedWithStringMethod =>
    LET u == Supplied(last.opts.url)
        p == Supplied(last.opts.pathTemplate)
    IN /\ (u /\ p) => last.err = "ConflictingUrlSpec"
       /\ (~u /\ ~p) => last.err = "MissingUrlSpec"
       /\ last.err = "none" => (u # p)

\* C2: a prepare call with a string method that is no verb, in any letter case,
\* fails; after a successful call the method is the upper-case form of the one
\* given and a member of the verb set.
C2_MethodIsVerb ==
  PreparedWithStringMethod =>
    /\ toUpperCase(last.opts.method.v) \notin validMethods => last.err # "none"
    /\ last.err = "none" =>
         d.method = toUpperCase(last.opts.method.v) /\ d.method \in validMethods

\* C3: after a successful prepare call that supplies pathTemplate (and no query
\* parameters), the url is base, one "/", and the template less one leading "/"
\* with every occurrence of every placeholder replaced by its resolved value,
\* and no placeholder remains in it.
C3_TemplateResolved ==
  (Succeeded /\ Truthy(last.opts.pathTemplate) /\ ~Truthy(last.opts.queryParameters)) =>
    /\ d.url = ExpectedTemplateUrl(last.opts)
    /\ MatchPlaceholders(d.url, 1) = <<>>

\* the pairs a call's queryParameters are to append: one per entry whose value
\* is not falsy, in order, as <<name, resolved value>>
RECURSIVE ExpectedQuery(_, _)
ExpectedQuery(entries, i) ==
  IF i > Len(entries) THEN <<>>
  ELSE (IF Truthy(entries[i][2]) THEN << <<entries[i][1], Resolved(entries[i][2])>> >>
        ELSE <<>>)
       \o ExpectedQuery(entries, i + 1)

\* name=value of each pair, joined with "&"
RECURSIVE QueryString(_)
QueryString(pairs) ==
  IF pairs = <<>> THEN <<>>
  ELSE pairs[1][1] \o <<"=">> \o pairs[1][2]
       \o (IF Len(pairs) > 1 THEN <<"&">> ELSE <<>>) \o QueryString(Tail(pairs))

\* the url of the last call before its query parameters were appended
UrlBeforeQuery ==
  IF Truthy(last.opts.pathTemplate) THEN ExpectedTemplateUrl(last.opts)
  ELSE IF Truthy(last.opts.url) THEN last.opts.url.v
  ELSE last.pre.url

\* C4: after a successful prepare call that supplies a queryParameters mapping,
\* the url has gained a "?" if it had none and then the pairs name=value of
\* exactly the entries whose values are not falsy, joined with "&" in order, and
\* the query map holds exactly those names with those same values.
C4_QueryComposed ==
  (Succeeded /\ Truthy(last.opts.queryParameters)) =>
    LET pairs == ExpectedQuery(last.opts.queryParameters.m, 1)
        before == UrlBeforeQuery
    IN /\ d.url = before \o (IF \E i \in 1..Len(before) : before[i] = "?" THEN <<>> ELSE <<"?">>)
                         \o QueryString(pairs)
       /\ d.query = Obj(pairs)

\* a body is given and it is a stream
StreamCall == ~LooseUndefined(last.opts.body) /\ last.opts.bodyIsStream

C6_SerializedThenJson ==
  (Succeeded /\ ~LooseUndefined(last.opts.body) /\ ~last.opts.bodyIsStream) =>
    LET schema == last.opts.serializationMapper
        raw == last.opts.disableJsonStringifyOnBody
    IN /\ (Truthy(schema) /\ ~raw) => d.body = JSONstringify(Serialize(schema, last.opts.body))
       /\ (Truthy(schema) /\ raw) => d.body = Serialize(schema, last.opts.body)
       /\ (~Truthy(schema) /\ raw) => d.body = last.opts.body

\* the value the entries give the header stored under key (the last entry
\* naming it counts), or otherwise
RECURSIVE GivenValue(_, _, _)
GivenValue(entries, key, otherwise) ==
  IF entries = <<>> THEN otherwise
  ELSE LET e == entries[Len(entries)]
       IN IF getHeaderKey(e[1]) = key THEN e[2]
          ELSE GivenValue(SubSeq(entries, 1, Len(entries) - 1), key, otherwise)

\* the header stored under key once the caller's headers are merged in
Merged(key) ==
  IF Truthy(last.opts.headers)
    THEN GivenValue(last.opts.headers.m, key, HeadersBefore[key])
    ELSE HeadersBefore[key]

C8_CloneIndependent ==
  /\ last.op = "clone" =>
       /\ c[1] = [d EXCEPT !.headers = c[1].headers]
       /\ c[1].headers # d.headers
       /\ stores[c[1].headers] = stores[d.headers]
  /\ (last.op = "set" /\ last.target = "c") => stores[d.headers] = last.preStores[d.headers]
  /\ (last.op = "set" /\ last.target = "d") =>
       stores[c[1].headers] = last.preStores[c[1].headers]

OccursAfter(s, sub, i) == \E j \in (i + 1)..Len(s) : OccursAt(s, sub, j)

\* C10 as stated: after a successful prepare call (one that supplies exactly one
\* of url and pathTemplate) every entry of the query map occurs as name=value in
\* the query string of the url.
C10_QueryInSync ==
  (/\ Succeeded
   /\ Supplied(last.opts.url) # Supplied(last.opts.pathTemplate)
   /\ d.query.t = "object") =>
    \A k \in 1..Len(d.query.m) :
      /\ indexOf(d.url, <<"?">>) # 0
      /\ OccursAfter(d.url, d.query.m[k][1] \o <<"=">> \o d.query.m[k][2],
                     indexOf(d.url, <<"?">>))

\* C10 amended: after a successful prepare call that supplies queryParameters
\* the url ends with the entries of the query map, as name=value joined with
\* "&" in order; a successful call that supplies none leaves the query map as
\* it was, whatever the url has become.
C10_QueryOfLastComposition ==
  Succeeded =>
    IF Truthy(last.opts.queryParameters)
      THEN /\ d.query.t = "object"
           /\ LET qs == QueryString(d.query.m)
              IN /\ Len(qs) <= Len(d.url)
                 /\ SubSeq(d.url, Len(d.url) - Len(qs) + 1, Len(d.url)) = qs
      ELSE d.query = last.pre.query

C10_Witness ==
  /\ Succeeded
  /\ ops = 2
  /\ Truthy(last.opts.queryParameters)
  /\ last.pre.query.t = "object"
  /\ Len(d.query.m) = 2
  /\ d.query.m[1][2] = S_amp

====
